---- MODULE Spec2Model ----
(***************************************************************************)
(* Model of the horizon library (src/src/horizon.ts): loadElevationData    *)
(* opens a raster, validates its georeferencing and captures the grid in   *)
(* a closure; calculateHorizon projects an observer to pixel coordinates   *)
(* and runs findHorizon, a ray march, once per integer compass direction.  *)
(* The command-line program main.ts (src/src/types.ts) is modelled as one  *)
(* run from its arguments to its exit code.                                *)
(*                                                                         *)
(* Numbers.  JavaScript numbers are modelled in fixed point: a pixel       *)
(* coordinate or a step component is an integer count of 1/Scale pixels,   *)
(* Math.floor is floor division by Scale, and Math.sin / Math.cos of a     *)
(* whole number of degrees come from SinTable (thousandths).  An elevation *)
(* angle atan2(dy, dx) * RAD_TO_DEG with dx > 0 is kept as the reduced     *)
(* fraction dy/dx (its tangent): atan2 and the scaling by RAD_TO_DEG are   *)
(* strictly increasing in dy/dx, so '>' and '=' on angles are '>' and '='  *)
(* on the fractions, and the angle is 0 exactly when dy = 0.  A quotient   *)
(* such as maxDistance / 1000 is kept as a reduced fraction as well.       *)
(***************************************************************************)
EXTENDS Integers, Sequences, FiniteSets, TLC

VARIABLES
    loadState,      \* "unloaded" | "loaded" | "rejected": outcome of loadElevationData
    loadError,      \* message of the Error thrown by loadElevationData, "" if none
    dataset,        \* the raster gdal.openAsync returned
    projection,     \* closure: dataset.srs.toProj4()
    geoTransform,   \* closure: originX, pixelWidth, originY, pixelHeight
    width,          \* closure: dataset.rasterSize.x
    height,         \* closure: dataset.rasterSize.y
    pixelSize,      \* closure: Math.abs(pixelWidth)
    rasterData,     \* closure: band 1 samples, row-major (index i is element i+1)
    call,           \* arguments of the latest calculateHorizon call, <<>> before any
    results,        \* the HorizonResult[] the latest call returned
    scans,          \* number of findHorizon invocations the latest call made
    probe,          \* ghost: the first call, what it returned, and whether a
                    \* different call has run since; <<>> if none is kept
    pc,             \* findHorizon's position: "idle" | "loop" | "done"
    scan,           \* findHorizon's locals while it runs step by step
    cli             \* the command-line program (main.ts): its arguments, exit
                    \* code and what it wrote to stdout and stderr

closureVars == <<projection, geoTransform, width, height, pixelSize, rasterData>>
loadVars == <<loadState, loadError, dataset>>
callVars == <<call, results, scans>>
vars == <<loadState, loadError, dataset, projection, geoTransform, width, height,
          pixelSize, rasterData, call, results, scans, probe, pc, scan, cli>>

----------------------------------------------------------------------------
(* Bounds of the model *)

\* grids are w x h pixels with w, h in 1..MaxDim
MaxDim == 3
\* a single raised pixel stands 1..MaxPeak metres above its surroundings
MaxPeak == 2
\* |pixelWidth| of the modelled rasters, in metres
PixelMetres == 2

(* Program constants *)

\* default startDirection
DefaultStart == 0
\* default endDirection
DefaultEnd == 359
\* maxDistance / 1000
MetresPerKm == 1000

\* resolution of the fixed-point numbers: thousandths, as in SinTable
Scale == 1000

----------------------------------------------------------------------------
(* Numbers *)

Abs(n) == IF n < 0 THEN -n ELSE n

\* Math.abs(pixelWidth)
MathAbs(n) == Abs(n)

RECURSIVE GCD(_, _)
GCD(a, b) == IF b = 0 THEN a ELSE GCD(b, a % b)

\* the quotient n / d, d > 0, as a reduced fraction
Quotient(n, d) ==
    LET g == GCD(Abs(n), d)
    IN  [num |-> n \div g, den |-> d \div g]

\* x / y for a divisor of either sign, in fixed point (1/Scale units)
FixedDivide(x, y) ==
    IF y > 0 THEN (x * Scale) \div y ELSE -(((x * Scale)) \div (-y))

\* Math.floor of a fixed-point number
MathFloor(v) == v \div Scale

\* round(1000 * sin(d degrees)) for d = 0..90; element d+1 is sin(d)
SinTable ==
    << 0, 17, 35, 52, 70, 87, 105, 122, 139, 156, 174, 191, 208, 225, 242, 259,
       276, 292, 309, 326, 342, 358, 375, 391, 407, 423, 438, 454, 469, 485, 500,
       515, 530, 545, 559, 574, 588, 602, 616, 629, 643, 656, 669, 682, 695, 707,
       719, 731, 743, 755, 766, 777, 788, 799, 809, 819, 829, 839, 848, 857, 866,
       875, 883, 891, 899, 906, 914, 921, 927, 934, 940, 946, 951, 956, 961, 966,
       970, 974, 978, 982, 985, 988, 990, 993, 995, 996, 998, 999, 999, 1000, 1000 >>

\* Math.sin(direction * DEG_TO_RAD), in thousandths, for any whole direction
MathSin(direction) ==
    LET d == direction % 360
    IN  IF d <= 90 THEN SinTable[d + 1]
        ELSE IF d <= 180 THEN SinTable[180 - d + 1]
        ELSE IF d <= 270 THEN -SinTable[d - 180 + 1]
        ELSE -SinTable[360 - d + 1]

\* Math.cos(direction * DEG_TO_RAD), in thousandths
MathCos(direction) == MathSin(direction + 90)

\* -Infinity, the initial maxAngle
NegInfinity == [inf |-> TRUE, num |-> 0, den |-> 1]

\* the literal 0 reported when maxAngle is still -Infinity
ZeroAngle == [inf |-> FALSE, num |-> 0, den |-> 1]

\* Math.atan2(dy, dx) * RAD_TO_DEG for dx > 0, kept as the reduced fraction dy/dx
Atan2Deg(dy, dx) ==
    LET q == Quotient(dy, dx)
    IN  [inf |-> FALSE, num |-> q.num, den |-> q.den]

\* faulty variant: angle >= maxAngle, so a later tie replaces the maximum
AngleGreaterLastWins(a, b) ==
    IF a.inf THEN b.inf
    ELSE IF b.inf THEN TRUE
    ELSE a.num * b.den >= b.num * a.den

\* angle > maxAngle
AngleGreater(a, b) ==
    IF a.inf THEN FALSE
    ELSE IF b.inf THEN TRUE
    ELSE a.num * b.den > b.num * a.den

\* an optional argument or field: <<>> is undefined, <<v>> is the value v
DefaultTo(arg, default) == IF arg = <<>> THEN default ELSE arg[1]

----------------------------------------------------------------------------
(* Rasters the loader may be handed *)

\* proj4 is an external library: a projection is modelled by a name and a false
\* easting x0, and its forward transform shifts the longitude by x0
UTM == [name |-> "+proj=utm +zone=12", x0 |-> 500]

\* proj4(WGS84, projection, [longitude, latitude])
proj4(proj, longitude, latitude) ==
    [x |-> proj.x0 + longitude, y |-> latitude]

\* a north-up transform of a raster h pixels high: origin at the top-left corner
NorthUp(h) ==
    [present |-> TRUE, originX |-> UTM.x0, pixelWidth |-> PixelMetres,
     originY |-> h * PixelMetres, pixelHeight |-> -PixelMetres]

\* dataset.geoTransform of a raster without one (null)
NoGeoTransform ==
    [present |-> FALSE, originX |-> 0, pixelWidth |-> 0, originY |-> 0,
     pixelHeight |-> 0]

\* dataset.srs of a raster with / without a spatial reference (null)
Srs == [present |-> TRUE, toProj4 |-> UTM]
NoSrs == [present |-> FALSE, toProj4 |-> [name |-> "", x0 |-> 0]]

Flat(w, h, b) == [i \in 1..(w * h) |-> b]
Peak(w, h, b, at, dh) == [i \in 1..(w * h) |-> IF i = at THEN b + dh ELSE b]
Ramp(w, h) == [i \in 1..(w * h) |-> ((i - 1) % w) + ((i - 1) \div w)]

\* the terrains of the library-level runs: level ground and a slope
PlainTerrains(w, h) == {Flat(w, h, 0), Flat(w, h, 2), Ramp(w, h)}

\* the terrains of the single-scan runs: also one pixel raised (or sunk by 1)
AllTerrains(w, h) ==
    PlainTerrains(w, h)
    \cup {Peak(w, h, 2, at, dh) : at \in 1..(w * h), dh \in {-1} \cup 1..MaxPeak}

Raster(gt, srs, w, h, samples) ==
    [geoTransform |-> gt, srs |-> srs, rasterSize |-> [x |-> w, y |-> h],
     band |-> samples]

\* rasters with an affine transform and a spatial reference
GoodFiles(rich) ==
    UNION {{Raster(NorthUp(h), Srs, w, h, t) :
                t \in IF rich THEN AllTerrains(w, h) ELSE PlainTerrains(w, h)} :
           <<w, h>> \in (1..MaxDim) \X (1..MaxDim)}

\* rasters lacking the transform, the spatial reference, or both
BadFiles ==
    {Raster(gt, srs, 2, 2, Flat(2, 2, 2)) :
        <<gt, srs>> \in {<<NoGeoTransform, Srs>>, <<NorthUp(2), NoSrs>>,
                         <<NoGeoTransform, NoSrs>>}}

\* observer coordinates: from beyond one edge of the grid to beyond the other;
\* the coarse ones project strictly between pixel boundaries, the fine ones
\* also exactly onto them
Longitudes(w, fine) ==
    {l \in -1..(w * PixelMetres + 1) :
        l % PixelMetres = 1 \/ (fine /\ l % PixelMetres = 0)}
Latitudes(h, fine) ==
    {l \in -1..(h * PixelMetres + 1) :
        l % PixelMetres = 1 \/ (fine /\ l % PixelMetres = 0)}

\* (startDirection, endDirection) arguments; <<>> is an omitted argument
DirectionRanges ==
    {<< <<>>, <<>> >>, << <<45>>, <<47>> >>, << <<268>>, <<271>> >>,
     << <<180>>, <<180>> >>, << <<358>>, <<>> >>, << <<-1>>, <<1>> >>,
     << <<350>>, <<10>> >>, << <<90>>, <<89>> >>, << <<3>>, <<0>> >>}

----------------------------------------------------------------------------
(* src/src/horizon.ts *)

\* toPixel: fractional pixel coordinates, in fixed point
toPixel(latitude, longitude, originX, pixelWidth, originY, pixelHeight, proj) ==
    LET p == proj4(proj, longitude, latitude)
    IN  [pixelX |-> FixedDivide(p.x - originX, pixelWidth),
         pixelY |-> FixedDivide(p.y - originY, pixelHeight)]

\* faulty variant: the far edges tested with > instead of >=
isOutOfBoundsInclusive(pixelX, pixelY, w, h) ==
    pixelX < 0 \/ pixelY < 0 \/ pixelX > w \/ pixelY > h

isOutOfBounds(pixelX, pixelY, w, h) ==
    pixelX < 0 \/ pixelY < 0 \/ pixelX >= w \/ pixelY >= h

\* rasterData[index] ?? 0
SampleAt(samples, index) ==
    IF index >= 0 /\ index < Len(samples) THEN samples[index + 1] ELSE 0

\* stepX, stepY of findHorizon
StepX(direction) == MathSin(direction)
StepY(direction) == -MathCos(direction)

\* the pixel findHorizon looks at in iteration `step`
Candidate(observerX, observerY, direction, step) ==
    [pixelX |-> MathFloor(observerX + StepX(direction) * step),
     pixelY |-> MathFloor(observerY + StepY(direction) * step)]

\* faulty variant: maxAngle starts at 0 instead of -Infinity
InitialLocalsFromZero == [maxAngle |-> ZeroAngle, maxDistance |-> 0, step |-> 1]

\* maxAngle, maxDistance and step before the loop
InitialLocals == [maxAngle |-> NegInfinity, maxDistance |-> 0, step |-> 1]

\* the loop's break
LoopBreaks(w, h, observerX, observerY, direction, l) ==
    LET p == Candidate(observerX, observerY, direction, l.step)
    IN  isOutOfBounds(p.pixelX, p.pixelY, w, h)

\* faulty variant: row and column exchanged
ReadIndexTransposed(w, observerX, observerY, direction, step) ==
    LET p == Candidate(observerX, observerY, direction, step)
    IN  p.pixelX * w + p.pixelY

\* the index the loop reads in iteration `step`
ReadIndex(w, observerX, observerY, direction, step) ==
    LET p == Candidate(observerX, observerY, direction, step)
    IN  p.pixelY * w + p.pixelX

\* faulty variant: the distance left in pixels
DistanceInPixels(step, ps) == step

\* distance = step * pixelSize
DistanceAt(step, ps) == step * ps

\* one iteration that does not break: sample, compare, step++
LoopBody(samples, w, observerX, observerY, direction, ps, baseElevation, l) ==
    LET elevation ==
            SampleAt(samples, ReadIndex(w, observerX, observerY, direction, l.step))
        distance == DistanceAt(l.step, ps)
        angle == Atan2Deg(elevation - baseElevation, distance)
        better == AngleGreater(angle, l.maxAngle)
    IN  [maxAngle |-> IF better THEN angle ELSE l.maxAngle,
         maxDistance |-> IF better THEN distance ELSE l.maxDistance,
         step |-> l.step + 1]

\* the while (true) loop, run to its break
RECURSIVE RayMarch(_, _, _, _, _, _, _, _, _)
RayMarch(samples, w, h, observerX, observerY, direction, ps, baseElevation, l) ==
    IF LoopBreaks(w, h, observerX, observerY, direction, l) THEN l
    ELSE RayMarch(samples, w, h, observerX, observerY, direction, ps, baseElevation,
                  LoopBody(samples, w, observerX, observerY, direction, ps,
                           baseElevation, l))

\* faulty variant: maxAngle returned as it is, -Infinity included
HorizonResultRaw(direction, l) ==
    [direction |-> direction,
     elevationAngleDegrees |-> l.maxAngle,
     distanceKm |-> Quotient(l.maxDistance, MetresPerKm)]

\* the object findHorizon returns
HorizonResult(direction, l) ==
    [direction |-> direction,
     elevationAngleDegrees |->
        IF l.maxAngle = NegInfinity THEN ZeroAngle ELSE l.maxAngle,
     distanceKm |-> Quotient(l.maxDistance, MetresPerKm)]

findHorizon(samples, w, h, observerX, observerY, direction, ps, baseElevation) ==
    HorizonResult(direction,
                  RayMarch(samples, w, h, observerX, observerY, direction, ps,
                           baseElevation, InitialLocals))

\* faulty variant: the spatial reference is not checked
LoadErrorTransformOnly(file) ==
    IF ~file.geoTransform.present THEN <<"Missing geoTransform">> ELSE <<>>

\* the Error loadElevationData throws for a raster, <<>> if it throws none
LoadError(file) ==
    IF ~file.geoTransform.present THEN <<"Missing geoTransform">>
    ELSE IF ~file.srs.present THEN <<"Missing spatial reference system">>
    ELSE <<>>

loadElevationData(file) ==
    /\ loadState = "unloaded"
    /\ dataset' = file
    /\ IF LoadError(file) # <<>>
       THEN /\ loadState' = "rejected"
            /\ loadError' = LoadError(file)[1]
            /\ UNCHANGED closureVars
       ELSE /\ loadState' = "loaded"
            /\ loadError' = ""
            /\ projection' = file.srs.toProj4
            /\ geoTransform' =
                   [originX |-> file.geoTransform.originX,
                    pixelWidth |-> file.geoTransform.pixelWidth,
                    originY |-> file.geoTransform.originY,
                    pixelHeight |-> file.geoTransform.pixelHeight]
            /\ width' = file.rasterSize.x
            /\ height' = file.rasterSize.y
            /\ pixelSize' = MathAbs(file.geoTransform.pixelWidth)
            /\ rasterData' = file.band
    /\ UNCHANGED <<callVars, probe, pc, scan, cli>>

\* faulty variant: the range taken as exclusive of endDirection
ArrayFromLengthExclusive(length) == IF length < 1 THEN 0 ELSE length - 1

\* faulty variant: a reversed range wrapped through 360
ArrayFromLengthWrapping(length) == IF length <= 0 THEN length + 360 ELSE length

\* Array.from({ length }, ...): the number of elements it creates
ArrayFromLength(length) == IF length < 0 THEN 0 ELSE length

\* the observer's pixel position for a call
ObserverPixel(latitude, longitude) ==
    toPixel(latitude, longitude, geoTransform.originX, geoTransform.pixelWidth,
            geoTransform.originY, geoTransform.pixelHeight, projection)

\* observerIndex
ObserverIndex(observerPixel, w) ==
    MathFloor(observerPixel.pixelY) * w + MathFloor(observerPixel.pixelX)

\* the array calculateHorizon returns
HorizonOf(latitude, longitude, startDirection, endDirection) ==
    LET observerPixel == ObserverPixel(latitude, longitude)
        baseElevation == SampleAt(rasterData, ObserverIndex(observerPixel, width))
    IN  [directionOffset \in
            1..ArrayFromLength(endDirection - startDirection + 1) |->
                findHorizon(rasterData, width, height, observerPixel.pixelX,
                            observerPixel.pixelY,
                            startDirection + (directionOffset - 1),
                            pixelSize, baseElevation)]

\* faulty variant: the samples rebased in place on the observer's elevation
RasterAfterCallRebased(samples, observerIndex) ==
    [i \in 1..Len(samples) |-> samples[i] - SampleAt(samples, observerIndex)]

\* the sample buffer after a call: the call only reads it
RasterAfterCall(samples, observerIndex) == samples

\* calculateHorizon(latitude, longitude, startDirection?, endDirection?);
\* `keep` makes the ghost variable probe remember this call
calculateHorizon(latitude, longitude, startArg, endArg, keep) ==
    /\ loadState = "loaded"
    /\ pc = "idle"
    /\ LET startDirection == DefaultTo(startArg, DefaultStart)
           endDirection == DefaultTo(endArg, DefaultEnd)
           returned == HorizonOf(latitude, longitude, startDirection, endDirection)
           args == [latitude |-> latitude, longitude |-> longitude,
                    startArg |-> startArg, endArg |-> endArg,
                    startDirection |-> startDirection,
                    endDirection |-> endDirection]
       IN  /\ results' = returned
           /\ scans' = Len(returned)
           /\ call' = <<args>>
           /\ probe' =
                  IF keep
                  THEN <<[args |-> args, returned |-> returned, others |-> FALSE]>>
                  ELSE IF probe = <<>> THEN probe
                  ELSE <<[probe[1] EXCEPT !.others = @ \/ args # probe[1].args]>>
           /\ rasterData' =
                  RasterAfterCall(rasterData,
                      ObserverIndex(ObserverPixel(latitude, longitude), width))
    /\ UNCHANGED <<loadVars, projection, geoTransform, width, height, pixelSize,
                   pc, scan, cli>>

----------------------------------------------------------------------------
(* The library in a session of one load and one query over any direction   *)
(* range (a full range runs 360 scans); sessions of repeated queries are    *)
(* SpecRepeat below                                                          *)

NoRaster == Raster(NoGeoTransform, NoSrs, 0, 0, <<>>)

\* the command-line program before it is started
NotStarted ==
    [state |-> "ready", argv |-> <<>>, exitCode |-> 0, stdout |-> <<>>,
     stderr |-> "", progress |-> 0]

NoScan ==
    [observerX |-> 0, observerY |-> 0, direction |-> 0, baseElevation |-> 0,
     locals |-> InitialLocals, visited |-> 0]

Init ==
    /\ loadState = "unloaded"
    /\ loadError = ""
    /\ dataset = NoRaster
    /\ projection = NoSrs.toProj4
    /\ geoTransform = [originX |-> 0, pixelWidth |-> 0, originY |-> 0,
                       pixelHeight |-> 0]
    /\ width = 0
    /\ height = 0
    /\ pixelSize = 0
    /\ rasterData = <<>>
    /\ call = <<>>
    /\ results = <<>>
    /\ scans = 0
    /\ probe = <<>>
    /\ pc = "idle"
    /\ scan = NoScan
    /\ cli = NotStarted

Load == \E file \in GoodFiles(FALSE) \cup BadFiles : loadElevationData(file)

\* the session's query
Query ==
    /\ call = <<>>
    /\ \E latitude \in Latitudes(height, FALSE),
          longitude \in Longitudes(width, FALSE), range \in DirectionRanges :
            calculateHorizon(latitude, longitude, range[1], range[2], FALSE)

Next == Load \/ Query

Spec == Init /\ [][Next]_vars

----------------------------------------------------------------------------
(* Repeated queries against one loaded grid: the first call is remembered *)

\* short direction ranges
ShortRanges == {<< <<0>>, <<1>> >>, << <<135>>, <<135>> >>, << <<269>>, <<270>> >>}

RepeatQuery ==
    \E latitude \in {l \in Latitudes(height, FALSE) : l <= 1},
       longitude \in {l \in Longitudes(width, FALSE) : l <= 1},
       range \in ShortRanges :
        calculateHorizon(latitude, longitude, range[1], range[2], call = <<>>)

NextRepeat == Load \/ RepeatQuery

SpecRepeat == Init /\ [][NextRepeat]_vars

----------------------------------------------------------------------------
(* One findHorizon scan, iteration by iteration: calculateHorizon has been    *)
(* called for a single direction on a loaded grid and findHorizon stands at   *)
(* the top of its loop                                                        *)

ScanDirections == {0, 30, 45, 90, 135, 180, 200, 225, 270, 315, 350}

InitScanOver(files) ==
    \E file \in files :
        /\ loadState = "loaded"
        /\ loadError = ""
        /\ dataset = file
        /\ projection = file.srs.toProj4
        /\ geoTransform =
               [originX |-> file.geoTransform.originX,
                pixelWidth |-> file.geoTransform.pixelWidth,
                originY |-> file.geoTransform.originY,
                pixelHeight |-> file.geoTransform.pixelHeight]
        /\ width = file.rasterSize.x
        /\ height = file.rasterSize.y
        /\ pixelSize = MathAbs(file.geoTransform.pixelWidth)
        /\ rasterData = file.band
        /\ \E latitude \in Latitudes(file.rasterSize.y, TRUE),
              longitude \in Longitudes(file.rasterSize.x, TRUE),
              direction \in ScanDirections :
            LET observerPixel ==
                    toPixel(latitude, longitude, file.geoTransform.originX,
                            file.geoTransform.pixelWidth, file.geoTransform.originY,
                            file.geoTransform.pixelHeight, file.srs.toProj4)
            IN  /\ call = <<[latitude |-> latitude, longitude |-> longitude,
                             startArg |-> <<direction>>, endArg |-> <<direction>>,
                             startDirection |-> direction,
                             endDirection |-> direction]>>
                /\ scan = [observerX |-> observerPixel.pixelX,
                           observerY |-> observerPixel.pixelY,
                           direction |-> direction,
                           baseElevation |->
                               SampleAt(file.band,
                                        ObserverIndex(observerPixel,
                                                      file.rasterSize.x)),
                           locals |-> InitialLocals,
                           visited |-> 0]
        /\ results = <<>>
        /\ scans = 1
        /\ probe = <<>>
        /\ pc = "loop"
        /\ cli = NotStarted

InitScan == InitScanOver(GoodFiles(TRUE))

\* an iteration whose candidate pixel is in bounds
ScanIterate ==
    /\ pc = "loop"
    /\ ~LoopBreaks(width, height, scan.observerX, scan.observerY, scan.direction,
                   scan.locals)
    /\ scan' = [scan EXCEPT
                  !.locals = LoopBody(rasterData, width, scan.observerX,
                                      scan.observerY, scan.direction, pixelSize,
                                      scan.baseElevation, scan.locals),
                  !.visited = @ + 1]
    /\ UNCHANGED <<loadVars, closureVars, callVars, probe, pc, cli>>

\* the iteration whose candidate pixel is out of bounds: break and return
ScanBreak ==
    /\ pc = "loop"
    /\ LoopBreaks(width, height, scan.observerX, scan.observerY, scan.direction,
                  scan.locals)
    /\ pc' = "done"
    /\ results' = <<HorizonResult(scan.direction, scan.locals)>>
    /\ UNCHANGED <<loadVars, closureVars, call, scans, probe, scan, cli>>

NextScan == ScanIterate \/ ScanBreak

SpecScan == InitScan /\ [][NextScan]_vars

----------------------------------------------------------------------------
(* The command-line program main.ts.  src/src/types.ts holds its versions;  *)
(* the ray-marching one is modelled, and the earlier one builds its         *)
(* directions, parses its arguments and handles its errors with the same    *)
(* statements.  Its scan is findHorizon's loop statement for statement.     *)

\* toPixel of main.ts: the projection is the constant UTM12N
mainToPixel(latitude, longitude, gt) ==
    LET p == toPixel(latitude, longitude, gt.originX, gt.pixelWidth, gt.originY,
                     gt.pixelHeight, UTM)
    IN  [x |-> p.pixelX, y |-> p.pixelY]

\* calculateHorizonForDirection: the base elevation is read per direction
calculateHorizonForDirection(samples, w, h, startX, startY, direction, ps) ==
    LET startIdx == MathFloor(startY) * w + MathFloor(startX)
        baseElevation == SampleAt(samples, startIdx)
    IN  findHorizon(samples, w, h, startX, startY, direction, ps, baseElevation)

\* Array(length) throws a RangeError for a negative length
ArrayThrows(length) == length < 0

\* [...Array(length).keys()] for a length Array accepts
ArrayKeys(length) == [i \in 1..length |-> i - 1]

\* calculateHorizon of main.ts: the Error it throws ("" if none) and the array
\* it resolves to
mainCalculateHorizon(file, latitude, longitude, startDirection, endDirection) ==
    IF ~file.geoTransform.present
    THEN [error |-> "Missing geoTransform", value |-> <<>>]
    ELSE IF ArrayThrows(endDirection - startDirection + 1)
    THEN [error |-> "RangeError: Invalid array length", value |-> <<>>]
    ELSE LET gt == file.geoTransform
             start == mainToPixel(latitude, longitude, gt)
             keys == ArrayKeys(endDirection - startDirection + 1)
             directions == [i \in 1..Len(keys) |-> startDirection + keys[i]]
         IN  [error |-> "",
              value |->
                [i \in 1..Len(directions) |->
                    calculateHorizonForDirection(
                        file.band, file.rasterSize.x, file.rasterSize.y,
                        start.x, start.y, directions[i], MathAbs(gt.pixelWidth))]]

\* main() and the catch around it, for the raster at the program's fixed path and
\* the arguments argv = <latitude> <longitude> [start end]
main(file, argv) ==
    /\ cli.state = "ready"
    /\ IF Len(argv) < 2 \/ Len(argv) = 3
       THEN /\ cli' = [state |-> "exited", argv |-> argv, exitCode |-> 1,
                       stdout |-> <<>>, stderr |-> "Usage", progress |-> 0]
            /\ UNCHANGED <<dataset, results>>
       ELSE LET start == IF Len(argv) >= 3 THEN argv[3] ELSE DefaultStart
                end == IF Len(argv) >= 4 THEN argv[4] ELSE DefaultEnd
                outcome == mainCalculateHorizon(file, argv[1], argv[2], start, end)
            IN  /\ dataset' = file
                /\ results' = outcome.value
                /\ cli' =
                       IF outcome.error # ""
                       THEN [state |-> "exited", argv |-> argv, exitCode |-> 1,
                             stdout |-> <<>>, stderr |-> outcome.error,
                             progress |-> 0]
                       ELSE [state |-> "exited", argv |-> argv, exitCode |-> 0,
                             stdout |-> <<outcome.value>>, stderr |-> "",
                             progress |-> Len(outcome.value)]
    /\ UNCHANGED <<loadState, loadError, closureVars, call, scans, probe, pc, scan>>

\* (start, end) arguments of the command line
CliRanges ==
    {<<45, 47>>, <<180, 180>>, <<-1, 1>>, <<350, 10>>, <<90, 89>>, <<3, 0>>}

\* argument lists: too few, two, three and four arguments
CliArguments ==
    LET positions ==
            {l \in Latitudes(MaxDim, FALSE) : l <= 3}
                \X {l \in Longitudes(MaxDim, FALSE) : l <= 3}
    IN  {<<>>, <<1>>}
        \cup {<<p[1], p[2]>> : p \in positions}
        \cup {<<p[1], p[2], 45>> : p \in positions}
        \cup {<<p[1], p[2], r[1], r[2]>> : p \in positions, r \in CliRanges}

\* one run of the program
RunMain ==
    \E file \in GoodFiles(FALSE) \cup BadFiles, argv \in CliArguments :
        main(file, argv)

NextCli == RunMain

SpecCli == Init /\ [][NextCli]_vars

----------------------------------------------------------------------------
(* Properties *)

\* a calculateHorizon call of a library run has returned
Returned == call # <<>> /\ pc = "idle"

\* the observer's fractional pixel position in the latest call
Observer == ObserverPixel(call[1].latitude, call[1].longitude)

\* the observer's pixel lies inside the grid
ObserverInside ==
    /\ MathFloor(Observer.pixelX) >= 0 /\ MathFloor(Observer.pixelX) < width
    /\ MathFloor(Observer.pixelY) >= 0 /\ MathFloor(Observer.pixelY) < height

\* the stored sample of pixel (x, y), for a pixel of the grid
Stored(x, y) == rasterData[y * width + x + 1]

\* every sample equals the sample under the observer
FlatUnderObserver ==
    \A i \in 1..Len(rasterData) :
        rasterData[i] = Stored(MathFloor(Observer.pixelX), MathFloor(Observer.pixelY))

\* the step-k pixel of the ray from the observer in `direction` is off the grid
OffGrid(direction, k) ==
    LET x == (Observer.pixelX + MathSin(direction) * k) \div Scale
        y == (Observer.pixelY - MathCos(direction) * k) \div Scale
    IN  x < 0 \/ y < 0 \/ x >= width \/ y >= height

IsSentinel(r) ==
    r.elevationAngleDegrees = ZeroAngle /\ r.distanceKm = [num |-> 0, den |-> 1]

\* C1: for startDirection <= endDirection a call returns exactly
\* endDirection - startDirection + 1 results, the i-th (from 0) with direction
\* startDirection + i; with both arguments omitted, 360 results for 0..359 in order.
C1_OneResultPerDirection ==
    (Returned /\ call[1].startDirection <= call[1].endDirection) =>
        /\ Len(results) = call[1].endDirection - call[1].startDirection + 1
        /\ \A i \in 0..(Len(results) - 1) :
               results[i + 1].direction = call[1].startDirection + i
        /\ (call[1].startArg = <<>> /\ call[1].endArg = <<>>) =>
               /\ Len(results) = 360
               /\ \A d \in 0..359 : results[d + 1].direction = d

C1_Witness ==
    /\ Returned
    /\ call[1].startArg = <<>> /\ call[1].endArg = <<>>
    /\ Len(results) = 360
    /\ results[360].direction = 359

\* C2: for startDirection > endDirection a call returns the empty sequence, having
\* run no scan and raised no error; it does not wrap through 360/0.
C2_ReversedRangeIsEmpty ==
    (Returned /\ call[1].startDirection > call[1].endDirection) =>
        /\ results = <<>>
        /\ scans = 0
        /\ loadState = "loaded" /\ loadError = ""

C2_Witness ==
    /\ Returned
    /\ call[1].startDirection = 350 /\ call[1].endDirection = 10
    /\ results = <<>>

\* C3 as claimed: on a flat grid with the observer inside it, every direction's
\* result has elevation angle 0 and distance 0.
C3_FlatGridAllZero ==
    (Returned /\ ObserverInside /\ FlatUnderObserver) =>
        \A i \in 1..Len(results) : IsSentinel(results[i])

\* C3 amended: on a flat grid with the observer inside it, every direction's
\* result has elevation angle 0; its distance is 0 km when the step-1 pixel of the
\* ray is off the grid, and pixelSize / 1000 km (the sample of step 1) otherwise.
C3_FlatGridZeroAngleFirstSample ==
    (Returned /\ ObserverInside /\ FlatUnderObserver) =>
        \A i \in 1..Len(results) :
            /\ results[i].elevationAngleDegrees = ZeroAngle
            /\ results[i].distanceKm =
                   IF OffGrid(results[i].direction, 1) THEN [num |-> 0, den |-> 1]
                   ELSE Quotient(pixelSize, 1000)

C3_Witness ==
    /\ Returned /\ ObserverInside /\ FlatUnderObserver
    /\ Len(results) = 360
    /\ \E i \in 1..Len(results) : results[i].distanceKm.num > 0
    /\ \E i \in 1..Len(results) : results[i].distanceKm.num = 0

\* C7: whenever the observer's pixel position lies outside the grid, every
\* direction's result is the zero sentinel.
C7_OutsideObserverAllSentinel ==
    (Returned /\ ~ObserverInside) =>
        \A i \in 1..Len(results) : IsSentinel(results[i])

\* C8: a raster without an affine transform or without a spatial reference makes
\* loadElevationData fail with an error and yields no object to query: no call
\* ever runs against such a raster.
C8_LoadRejectsMissingGeoreference ==
    /\ (loadState # "unloaded"
            /\ (~dataset.geoTransform.present \/ ~dataset.srs.present)) =>
           /\ loadState = "rejected"
           /\ loadError # ""
           /\ call = <<>> /\ results = <<>>
    /\ (loadState = "loaded" \/ call # <<>>) =>
           dataset.geoTransform.present /\ dataset.srs.present

C8_Witness ==
    /\ loadState = "rejected"
    /\ dataset.geoTransform.present /\ ~dataset.srs.present
    /\ loadError = "Missing spatial reference system"

\* a call leaves what the closure captured as it was
C5_ClosureReadOnly == loadState = "loaded" => closureVars' = closureVars

\* a call with the arguments of the first call returns what the first call returned
C5_SameAnswer ==
    (probe # <<>> /\ call # <<>> /\ call[1] = probe[1].args) =>
        results = probe[1].returned

----------------------------------------------------------------------------
(* Properties of a single scan *)

\* rasters of every shape over one terrain: the loop's control flow reads the
\* grid's width and height and never a sample
SlopeFiles ==
    {Raster(NorthUp(h), Srs, w, h, Ramp(w, h)) :
        <<w, h>> \in (1..MaxDim) \X (1..MaxDim)}

\* weak fairness: the synchronous loop keeps running until it breaks
SpecScanFair ==
    InitScanOver(SlopeFiles) /\ [][NextScan]_vars /\ WF_vars(NextScan)

\* the pixel the scan looks at in iteration k
ScanPixel(k) ==
    [x |-> (scan.observerX + MathSin(scan.direction) * k) \div Scale,
     y |-> (scan.observerY - MathCos(scan.direction) * k) \div Scale]

OnGrid(p) == p.x >= 0 /\ p.x < width /\ p.y >= 0 /\ p.y < height

\* the observer's pixel, and whether it is a pixel of the grid
ScanObserverPixel ==
    [x |-> scan.observerX \div Scale, y |-> scan.observerY \div Scale]

\* the angle of the sample of iteration k, as the fraction rise / run
Rise(k) == Stored(ScanPixel(k).x, ScanPixel(k).y) - scan.baseElevation
Run(k) == k * pixelSize

\* iteration j's sample stands at a strictly greater angle than iteration k's
Steeper(j, k) == Rise(j) * Run(k) > Rise(k) * Run(j)

\* C4: observer inside the grid at base elevation b, every sample b except one
\* pixel d >= 1 rows due north of the observer's pixel, standing h > 0 higher:
\* direction 0 reports the angle atan2(h, d * pixelSize) and d * pixelSize / 1000 km.
C4_PeakDueNorth ==
    (pc = "done" /\ scan.direction = 0 /\ OnGrid(ScanObserverPixel)) =>
        \A d \in 1..height :
            LET b == Stored(ScanObserverPixel.x, ScanObserverPixel.y)
                at == (ScanObserverPixel.y - d) * width + ScanObserverPixel.x + 1
            IN  (/\ ScanObserverPixel.y - d >= 0
                 /\ rasterData[at] > b
                 /\ \A i \in 1..Len(rasterData) : i # at => rasterData[i] = b) =>
                    /\ results[1].direction = 0
                    /\ results[1].elevationAngleDegrees =
                           Atan2Deg(rasterData[at] - b, d * pixelSize)
                    /\ results[1].distanceKm = Quotient(d * pixelSize, 1000)

\* a peak two rows north of the observer, with a level sample nearer
C4_Witness ==
    /\ pc = "done" /\ scan.direction = 0 /\ OnGrid(ScanObserverPixel)
    /\ ScanObserverPixel.y = 2
    /\ rasterData = Peak(width, height, 2, ScanObserverPixel.x + 1, MaxPeak)
    /\ results[1].distanceKm = Quotient(2 * pixelSize, 1000)
    /\ scan.visited = 2

\* C6: with the observer in pixel (0,0), a scan towards a negative pixel
\* coordinate (north, west; any direction with a negative step component when the
\* observer stands exactly on the pixel's corner; any scan whose step-1 pixel has
\* a negative coordinate) visits no sample and returns angle 0, distance 0.
C6_CornerScanIsSentinel ==
    (/\ pc = "done"
     /\ ScanObserverPixel = [x |-> 0, y |-> 0]
     /\ \/ scan.direction \in {0, 270}
        \/ /\ scan.observerX = 0 /\ scan.observerY = 0
           /\ MathSin(scan.direction) < 0 \/ -MathCos(scan.direction) < 0
        \/ ScanPixel(1).x < 0 \/ ScanPixel(1).y < 0) =>
        /\ scan.visited = 0
        /\ ~results[1].elevationAngleDegrees.inf
        /\ IsSentinel(results[1])

\* the observer strictly inside pixel (0,0), scanning west
C6_Witness ==
    /\ pc = "done"
    /\ ScanObserverPixel = [x |-> 0, y |-> 0]
    /\ scan.observerX > 0 /\ scan.observerY > 0
    /\ scan.direction = 270
    /\ width > 1
    /\ scan.visited = 0 /\ IsSentinel(results[1])

\* the samples visited so far are bounded by the grid's diagonal
C9_WithinDiagonal ==
    pc \in {"loop", "done"} =>
        /\ scan.visited = scan.locals.step - 1
        /\ (scan.visited - 1) * (scan.visited - 1) <= width * width + height * height
        /\ OnGrid(ScanObserverPixel) =>
               scan.visited * scan.visited <= width * width + height * height

\* the loop is left only on a pixel off the grid, and samples only pixels on it
C9_LeavesOnlyOffGrid ==
    /\ (pc = "loop" /\ pc' = "done") => ~OnGrid(ScanPixel(scan.locals.step))
    /\ (scan'.visited # scan.visited) => OnGrid(ScanPixel(scan.locals.step))

\* C9: for every grid, direction and observer position the ray march terminates,
\* the in-bounds samples it visits are bounded by the grid's diagonal extent, and
\* it leaves the loop only by going out of bounds.
C9_ScanTerminatesWithinDiagonal ==
    /\ []C9_WithinDiagonal
    /\ [][C9_LeavesOnlyOffGrid]_vars
    /\ <>(pc = "done")

\* a scan along the diagonal of a square grid that visited as many samples as
\* the grid has rows
C9_Witness ==
    /\ pc = "done"
    /\ width = MaxDim /\ height = MaxDim
    /\ scan.direction = 135
    /\ scan.visited = MaxDim

\* C10: when a scan visits n >= 1 samples, the reported angle is the greatest of
\* the angles of the samples of steps 1..n and the reported distance is
\* k * pixelSize for the smallest k whose sample has that angle.
C10_SteepestSampleFirstWins ==
    (pc = "done" /\ scan.visited >= 1) =>
        \E k \in 1..scan.visited :
            /\ \A j \in 1..scan.visited : ~Steeper(j, k)
            /\ \A j \in 1..(k - 1) : Steeper(k, j)
            /\ results[1].elevationAngleDegrees = Atan2Deg(Rise(k), Run(k))
            /\ results[1].distanceKm = Quotient(k * pixelSize, 1000)

\* three samples visited, the steepest being the middle one
C10_Witness ==
    /\ pc = "done" /\ scan.visited = 3
    /\ Steeper(2, 1) /\ Steeper(2, 3)
    /\ results[1].distanceKm = Quotient(2 * pixelSize, 1000)

\* C11: when the observer's pixel lies outside the grid in either coordinate, the
\* base elevation a scan of that query has used is the missing-sample value 0,
\* never the stored sample of a pixel of the grid.
C11_OutsideObserverBaseIsZero ==
    (pc = "done" /\ ~OnGrid(ScanObserverPixel)) => scan.baseElevation = 0

\* C12: the command-line program given start > end, by any amount, on a raster it
\* can open, prints an empty JSON array and exits with code 0.
C12_CliReversedRangeIsEmpty ==
    (/\ cli.state = "exited"
     /\ Len(cli.argv) = 4 /\ cli.argv[3] > cli.argv[4]
     /\ dataset.geoTransform.present) =>
        /\ cli.exitCode = 0
        /\ cli.stdout = << <<>> >>
        /\ cli.stderr = ""

\* the index the scan read in iteration k
ScanRead(k) ==
    ReadIndex(width, scan.observerX, scan.observerY, scan.direction, k)

\* C13: every sample a scan reads inside its loop has index pixelY * width + pixelX
\* for a pixel with 0 <= pixelX < width and 0 <= pixelY < height, so the index lies
\* in 0..width*height-1, belongs to that very pixel (no wrap into another row),
\* and the read never falls back on the missing-sample default.
C13_ReadsStayInsideGrid ==
    \A k \in 1..scan.visited :
        LET p == ScanPixel(k)
            index == ScanRead(k)
        IN  /\ OnGrid(p)
            /\ index = p.y * width + p.x
            /\ index >= 0 /\ index < width * height
            /\ index % width = p.x /\ index \div width = p.y
            /\ index < Len(rasterData)
            /\ SampleAt(rasterData, index) = Stored(p.x, p.y)

\* a finished scan down the last column of the largest grid, whose last read was
\* the last sample of the buffer
C13_Witness ==
    /\ pc = "done"
    /\ width = MaxDim /\ height = MaxDim
    /\ scan.direction = 180
    /\ scan.visited = MaxDim - 1
    /\ ScanRead(scan.visited) = width * height - 1

\* C14: with pixelSize > 0, a scan's result has distanceKm = 0 exactly when the
\* step-1 pixel of the ray is off the grid (no sample visited); otherwise
\* distanceKm * 1000 is k * pixelSize for a visited step k >= 1.  So distanceKm is
\* never negative, and a result with angle 0 and distanceKm > 0 is a visited
\* sample level with the observer's base elevation, not the no-data sentinel.
C14_ZeroDistanceOnlyWithoutSamples ==
    (pc = "done" /\ pixelSize > 0) =>
        LET r == results[1]
        IN  /\ r.distanceKm.num = 0 <=> ~OnGrid(ScanPixel(1))
            /\ ~OnGrid(ScanPixel(1)) <=> scan.visited = 0
            /\ OnGrid(ScanPixel(1)) =>
                   \E k \in 1..scan.visited :
                       r.distanceKm = Quotient(k * pixelSize, MetresPerKm)
            /\ r.distanceKm.num >= 0
            /\ (r.elevationAngleDegrees = ZeroAngle /\ r.distanceKm.num > 0) =>
                   \E k \in 1..scan.visited :
                       /\ Rise(k) = 0
                       /\ r.distanceKm = Quotient(k * pixelSize, MetresPerKm)

\* a scan from the highest pixel of the grid: every visited sample lies below the
\* observer, and the result still carries the distance of one of them
C14_Witness ==
    /\ pc = "done" /\ scan.visited >= 2
    /\ \A k \in 1..scan.visited : Rise(k) < 0
    /\ results[1].elevationAngleDegrees.num < 0
    /\ results[1].distanceKm.num > 0

====
